---- MODULE Spec2Model ----
(***************************************************************************)
(* Model of the two KITTI utilities:                                       *)
(*   frames_to_video.py      create_video(image_folder, output_video_path, *)
(*                           fps, image_ext)                               *)
(*   process_kitti_drives.py process_all_drives(kitti_test_root,           *)
(*                           output_dir, fps)                              *)
(* A Python str is a sequence of one-character strings, compared by code   *)
(* point.  A decoded frame is its shape <<height, width>>; cv2.imread's    *)
(* None is the empty tuple.                                                 *)
(***************************************************************************)
EXTENDS Integers, Sequences, FiniteSets, TLC

VARIABLES
    pc,                 \* process_all_drives: position
    drive_paths,        \* process_all_drives: the sorted list of line 30-31
    idx,                \* process_all_drives: 1-based position of the for loop of line 44
    result,             \* process_all_drives: the value it returned
    tree,               \* the (date, name) entries two levels under kitti_test_root
    visited,            \* every drive the loop of line 44 took up, with its drive_name
    calls,              \* every invocation of create_video, in order
    cvpc,               \* create_video: position
    image_folder,       \* create_video: argument
    output_video_path,  \* create_video: argument
    globbed,            \* create_video: image_files as glob.glob returned it (line 27)
    image_files,        \* create_video: image_files after the sort of lines 37-43
    size,               \* create_video: (width, height) handed to the encoder
    video_writer,       \* create_video: "none", "open" or "released"
    opened,             \* create_video: the (path, size) of every cv2.VideoWriter built
    written,            \* create_video: the paths of the frames handed to write(), in order
    fi,                 \* create_video: 1-based position of the for loop of line 65
    listing,            \* create_video: the names in image_folder, as the directory lists them
    decoded,            \* create_video: every cv2.imread call, in order: <<path, frame>>
    exception,          \* the exception in flight ("" when none)
    files0,             \* the files on disk when create_video was entered
    files,              \* the output files that exist on disk
    image_dirs,         \* the drives whose image_02/data is a directory
    output_dir_exists,  \* whether output_dir exists
    console             \* everything printed, in order

vars == <<pc, tree, drive_paths, idx, result, visited, calls, cvpc, image_folder, output_video_path,
          globbed, image_files, size, video_writer, opened, written, fi, listing, decoded,
          exception, files0, files, image_dirs, output_dir_exists, console>>

cvLocals == <<image_folder, output_video_path, globbed, image_files, size,
              video_writer, opened, written, fi, listing, decoded, files0>>

batchVars == <<pc, tree, drive_paths, idx, result, visited, calls, image_dirs,
               output_dir_exists>>

----------------------------------------------------------------------------
(* Bounds of the model.                                                    *)

MaxFrames == 3

MaxDrives == 2

----------------------------------------------------------------------------
(* Python values.                                                          *)

None == <<>>

Ord(c) ==
    CASE c = "." -> 46 [] c = "/" -> 47
      [] c = "0" -> 48 [] c = "1" -> 49 [] c = "2" -> 50 [] c = "3" -> 51
      [] c = "4" -> 52 [] c = "5" -> 53 [] c = "6" -> 54 [] c = "7" -> 55
      [] c = "8" -> 56 [] c = "9" -> 57 [] c = "_" -> 95
      [] c = "a" -> 97 [] c = "b" -> 98 [] c = "c" -> 99 [] c = "d" -> 100
      [] c = "e" -> 101 [] c = "f" -> 102 [] c = "g" -> 103 [] c = "i" -> 105
      [] c = "j" -> 106 [] c = "m" -> 109 [] c = "n" -> 110 [] c = "o" -> 111
      [] c = "p" -> 112 [] c = "s" -> 115 [] c = "t" -> 116 [] c = "x" -> 120
      [] c = "y" -> 121

IsDigit(c) == c \in {"0", "1", "2", "3", "4", "5", "6", "7", "8", "9"}

\* str < str: the first differing character decides, a proper prefix is smaller.
StrLess(a, b) ==
    \/ \E i \in 1..Len(a) :
          /\ i <= Len(b)
          /\ \A j \in 1..(i - 1) : a[j] = b[j]
          /\ Ord(a[i]) < Ord(b[i])
    \/ /\ Len(a) < Len(b)
       /\ \A j \in 1..Len(a) : a[j] = b[j]

\* list.sort(): a stable sort under the comparison less, a function on the pairs of
\* elements.  The element at input position i lands after every element that is
\* smaller, and after every equal element that preceded it.
StableSort(s, less) ==
    LET rank(i) == 1 + Cardinality({j \in DOMAIN s :
                          \/ less[<<s[j], s[i]>>]
                          \/ (~less[<<s[i], s[j]>>] /\ j < i)})
    IN  [k \in DOMAIN s |-> s[CHOOSE i \in DOMAIN s : rank(i) = k]]

\* The pairs of elements of the list s.
Pairs(s) == {<<s[i], s[j]>> : i, j \in DOMAIN s}

\* Comparison of the elements of s as strings.
ByString(s) == [q \in Pairs(s) |-> StrLess(q[1], q[2])]

\* os.path.join(a, b) for a relative b.
Join(a, b) == a \o <<"/">> \o b

\* os.path.basename(p): what follows the last "/".
Basename(p) ==
    LET slashes == {i \in DOMAIN p : p[i] = "/"}
        last == IF slashes = {} THEN 0
                ELSE CHOOSE i \in slashes : \A j \in slashes : j <= i
    IN  SubSeq(p, last + 1, Len(p))

EndsWith(s, suffix) ==
    /\ Len(suffix) <= Len(s)
    /\ SubSeq(s, Len(s) - Len(suffix) + 1, Len(s)) = suffix

\* str.replace(old, new): one pass from the left over non-overlapping occurrences.
RECURSIVE Replace(_, _, _)
Replace(s, old, new) ==
    IF s = <<>> THEN <<>>
    ELSE IF Len(old) <= Len(s) /\ SubSeq(s, 1, Len(old)) = old
         THEN new \o Replace(SubSeq(s, Len(old) + 1, Len(s)), old, new)
         ELSE <<s[1]>> \o Replace(Tail(s), old, new)

----------------------------------------------------------------------------
(* frames_to_video.py: create_video.                                       *)

ImageExt == <<"p", "n", "g">>

Msg(kind, args) == [kind |-> kind, args |-> args]

Last(s) == s[Len(s)]

\* The pattern '*.<image_ext>' of line 26: the name ends with the extension, and a
\* leading "*" never matches a hidden file.
GlobMatch(name, image_ext) ==
    /\ EndsWith(name, <<".">> \o image_ext)
    /\ name[1] # "."

\* glob.glob(os.path.join(image_folder, '*.<image_ext>')): the matching names of the
\* folder, each joined to the folder, in the order the directory lists them.
GlobAllFiles(folder, names, image_ext) ==
    [i \in DOMAIN names |-> Join(folder, names[i])]

Glob(folder, names, image_ext) ==
    LET hits == SelectSeq(names, LAMBDA n : GlobMatch(n, image_ext))
    IN  [i \in DOMAIN hits |-> Join(folder, hits[i])]

HasDigit(s) == \E i \in DOMAIN s : IsDigit(s[i])

\* re.search(r'\d+', s).group(): the leftmost maximal run of digits.
FirstDigitRun(s) ==
    LET first == CHOOSE i \in DOMAIN s :
                     IsDigit(s[i]) /\ \A j \in 1..(i - 1) : ~IsDigit(s[j])
        stop  == CHOOSE k \in first..Len(s) :
                     /\ \A j \in first..k : IsDigit(s[j])
                     /\ (k = Len(s) \/ ~IsDigit(s[k + 1]))
    IN  SubSeq(s, first, stop)

\* int(digits), base 10.
RECURSIVE ParseInt(_)
ParseInt(digits) ==
    IF digits = <<>> THEN 0
    ELSE 10 * ParseInt(SubSeq(digits, 1, Len(digits) - 1))
         + (Ord(digits[Len(digits)]) - 48)

\* The key of line 38.
SortKey(f) == ParseInt(FirstDigitRun(Basename(f)))

\* Comparison of the elements of fs by the key of line 38.
ByKey(fs) == [q \in Pairs(fs) |-> SortKey(q[1]) < SortKey(q[2])]

KeyOrZero(f) == IF HasDigit(Basename(f)) THEN SortKey(f) ELSE 0

\* A digit-less basename is given key 0 and the rest stay numerically ordered.
SortPerFileFallback(fs) ==
    StableSort(fs, [q \in Pairs(fs) |-> KeyOrZero(q[1]) < KeyOrZero(q[2])])

\* Plain string sort whatever the names.
SortLexicalOnly(fs) == StableSort(fs, ByString(fs))

\* Lines 37-43.  re.search returns None for a basename without a digit, .group()
\* raises AttributeError, list.sort leaves the list as it was, and the handler
\* sorts the paths as strings.
SortImageFiles(fs) ==
    IF \E i \in DOMAIN fs : ~HasDigit(Basename(fs[i]))
    THEN StableSort(fs, ByString(fs))
    ELSE StableSort(fs, ByKey(fs))

SortedNumerically(fs) == \A i \in DOMAIN fs : HasDigit(Basename(fs[i]))

\* (width, height) is the shape (height, width) the other way round, with the axes
\* left as they are.
FrameSizeUnswapped(first_frame) == <<first_frame[1], first_frame[2]>>

\* Lines 53-54: shape is (height, width, layers); size is (width, height).
FrameSize(first_frame) == <<first_frame[2], first_frame[1]>>

\* Only the height is compared.
HeightDiffers(frame, height, width) == frame[1] # height

\* Line 69.
ResolutionDiffers(frame, height, width) ==
    frame[1] # height \/ frame[2] # width

\* cv2.imread(path): the frame the file decodes to, or None.  An image file does not
\* change while create_video runs, so a path read before decodes as it did then.
Imread(path, outcomes) ==
    IF \E i \in DOMAIN decoded : decoded[i][1] = path
    THEN {decoded[i][2] : i \in {j \in DOMAIN decoded : decoded[j][1] = path}}
    ELSE outcomes

\* Lines 18-43: the banner, discovery and the sort.
CV_Discover(listings) ==
    /\ cvpc = "start"
    /\ \E names \in listings :
         LET g == Glob(image_folder, names, ImageExt)
             banner == Append(console,
                              Msg("Starting", <<image_folder, output_video_path>>))
         IN  /\ listing' = names
             /\ globbed' = g
             /\ IF g = <<>>
                THEN /\ console' = Append(banner,
                                          Msg("NoFramesFound", <<ImageExt, image_folder>>))
                     /\ image_files' = g
                     /\ cvpc' = "returned"
                ELSE /\ image_files' = SortImageFiles(g)
                     /\ console' = Append(banner,
                                          IF SortedNumerically(g)
                                          THEN Msg("Sorted", <<Len(g)>>)
                                          ELSE Msg("AlphabeticalFallback", <<>>))
                     /\ cvpc' = "sorted"
    /\ UNCHANGED <<batchVars, image_folder, output_video_path, size, video_writer,
                   opened, written, fi, decoded, exception, files0, files>>

\* Lines 48-55: the first image gives the dimensions.
CV_ReadFirst(outcomes) ==
    /\ cvpc = "sorted"
    /\ \E first_frame \in Imread(image_files[1], outcomes) :
         /\ decoded' = Append(decoded, <<image_files[1], first_frame>>)
         /\ IF first_frame = None
            THEN /\ console' = Append(console, Msg("UnreadableFrame", <<image_files[1]>>))
                 /\ size' = size
                 /\ cvpc' = "returned"
            ELSE /\ size' = FrameSize(first_frame)
                 /\ console' = Append(console, Msg("Dimensions", FrameSize(first_frame)))
                 /\ cvpc' = "dims"
    /\ UNCHANGED <<batchVars, image_folder, output_video_path, listing, globbed,
                   image_files, video_writer, opened, written, fi, exception,
                   files0, files>>

\* Lines 60-64: the encoder is built on output_video_path, which creates the file
\* (or truncates the one that was there).
CV_OpenWriter ==
    /\ cvpc = "dims"
    /\ video_writer' = "open"
    /\ opened' = Append(opened, <<output_video_path, size>>)
    /\ files' = files \cup {output_video_path}
    /\ console' = Append(console, Msg("Writing", <<>>))
    /\ fi' = 1
    /\ cvpc' = "loop"
    /\ UNCHANGED <<batchVars, image_folder, output_video_path, listing, globbed,
                   image_files, size, written, decoded, exception, files0>>

\* Lines 65-77: one iteration of the for loop.  frame.shape on None raises
\* AttributeError, which nothing in create_video catches.
CV_Frame(outcomes) ==
    /\ cvpc = "loop"
    /\ fi <= Len(image_files)
    /\ \E frame \in Imread(image_files[fi], outcomes) :
         LET image_path == image_files[fi]
             width == size[1]
             height == size[2]
         IN  /\ decoded' = Append(decoded, <<image_path, frame>>)
             /\ IF frame = None
                THEN /\ exception' = "AttributeError"
                     /\ cvpc' = "raised"
                     /\ UNCHANGED <<console, video_writer, files, written, fi>>
                ELSE IF ResolutionDiffers(frame, height, width)
                THEN /\ console' = Append(console,
                            Msg("ResolutionMismatch",
                                <<Basename(image_path), <<width, height>>,
                                  <<frame[2], frame[1]>> >>))
                     /\ video_writer' = "released"
                     /\ files' = files \ {output_video_path}
                     /\ cvpc' = "returned"
                     /\ UNCHANGED <<exception, written, fi>>
                ELSE /\ written' = Append(written, image_path)
                     /\ fi' = fi + 1
                     /\ UNCHANGED <<console, video_writer, files, exception, cvpc>>
    /\ UNCHANGED <<batchVars, image_folder, output_video_path, listing, globbed,
                   image_files, size, opened, files0>>

\* Lines 79-82: every frame was written.
CV_Finalize ==
    /\ cvpc = "loop"
    /\ fi > Len(image_files)
    /\ video_writer' = "released"
    /\ console' = Append(console, Msg("Success", <<output_video_path>>))
    /\ cvpc' = "returned"
    /\ UNCHANGED <<batchVars, image_folder, output_video_path, listing, globbed,
                   image_files, size, opened, written, fi, decoded, exception,
                   files0, files>>

----------------------------------------------------------------------------
(* process_kitti_drives.py: process_all_drives.                            *)

SyncSuffix == <<"_", "s", "y", "n", "c">>

\* The pattern '*/*_sync' of line 30 on the entry (date, name).
SyncMatch(entry) ==
    /\ EndsWith(entry[2], SyncSuffix)
    /\ entry[1][1] # "."
    /\ entry[2][1] # "."

\* glob.glob(os.path.join(kitti_test_root, "*", "*_sync")) over the entries, which
\* the directory lists in the order `entries`.
GlobDrives(kitti_test_root, entries) ==
    LET hits == SelectSeq(entries, SyncMatch)
    IN  [i \in DOMAIN hits |-> Join(Join(kitti_test_root, hits[i][1]), hits[i][2])]

\* Line 48.
DriveName(drive_path) == Replace(Basename(drive_path), SyncSuffix, <<>>)

\* Line 54.
RgbImageFolder(drive_path) ==
    Join(Join(drive_path, <<"i", "m", "a", "g", "e", "_", "0", "2">>),
         <<"d", "a", "t", "a">>)

\* Lines 62-63.
OutputVideoPath(output_dir, drive_name) ==
    Join(output_dir, drive_name \o <<".", "m", "p", "4">>)

\* Lines 57-58.
SkipReport(drive_name, rgb_image_folder) ==
    <<Msg("Skip", <<drive_name, rgb_image_folder>>)>>

\* Every order in which a directory may list the members of the set S.
Orders(S) ==
    {q \in [1..Cardinality(S) -> S] : \A i, j \in DOMAIN q : i # j => q[i] # q[j]}

\* The locals of create_video when no call is running.
NoCall ==
    /\ image_folder' = <<>>
    /\ output_video_path' = <<>>
    /\ listing' = <<>>
    /\ globbed' = <<>>
    /\ image_files' = <<>>
    /\ size' = None
    /\ video_writer' = "none"
    /\ opened' = <<>>
    /\ written' = <<>>
    /\ fi' = 0
    /\ decoded' = <<>>
    /\ files0' = {}

\* Lines 25-41: discovery, the sort, and the output directory.
P_Discover(kitti_test_root) ==
    /\ pc = "start"
    /\ \E entries \in Orders(tree) :
         LET found == GlobDrives(kitti_test_root, entries)
             banner == Append(console, Msg("Searching", <<kitti_test_root>>))
         IN  IF found = <<>>
             THEN /\ console' = Append(banner, Msg("NoDrivesFound", <<>>))
                  /\ result' = <<None>>
                  /\ pc' = "no_drives"
                  /\ UNCHANGED <<drive_paths, idx, output_dir_exists>>
             ELSE /\ drive_paths' = StableSort(found, ByString(found))
                  /\ console' = Append(banner, Msg("Found", <<Len(found)>>))
                  /\ output_dir_exists' = TRUE
                  /\ idx' = 1
                  /\ pc' = "loop"
                  /\ UNCHANGED result
    /\ UNCHANGED <<tree, visited, calls, image_dirs, cvpc, cvLocals, exception, files>>

\* Lines 44-73: one drive is taken up; it is skipped, or create_video is entered.
P_Drive(output_dir) ==
    /\ pc = "loop"
    /\ idx <= Len(drive_paths)
    /\ LET drive_path == drive_paths[idx]
           drive_name == DriveName(drive_path)
           rgb_image_folder == RgbImageFolder(drive_path)
           processing == Append(console, Msg("Processing", <<drive_name>>))
       IN  /\ visited' = Append(visited,
                                [drive_path |-> drive_path, drive_name |-> drive_name])
           /\ IF drive_path \notin image_dirs
              THEN /\ console' = processing \o SkipReport(drive_name, rgb_image_folder)
                   /\ idx' = idx + 1
                   /\ UNCHANGED <<pc, calls, cvpc, cvLocals>>
              ELSE /\ console' = processing
                   /\ calls' = Append(calls,
                          [image_folder |-> rgb_image_folder,
                           output_video_path |-> OutputVideoPath(output_dir, drive_name)])
                   /\ image_folder' = rgb_image_folder
                   /\ output_video_path' = OutputVideoPath(output_dir, drive_name)
                   /\ files0' = files
                   /\ cvpc' = "start"
                   /\ pc' = "in_call"
                   /\ UNCHANGED <<idx, listing, globbed, image_files, size, video_writer,
                                  opened, written, fi, decoded>>
    /\ UNCHANGED <<tree, drive_paths, result, image_dirs, output_dir_exists, exception,
                   files>>

\* create_video returned (it returns None whatever happened): the loop goes on.
P_Return ==
    /\ pc = "in_call"
    /\ cvpc = "returned"
    /\ idx' = idx + 1
    /\ pc' = "loop"
    /\ cvpc' = "idle"
    /\ NoCall
    /\ UNCHANGED <<tree, drive_paths, result, visited, calls, image_dirs,
                   output_dir_exists, exception, files, console>>

\* create_video raised: nothing in process_all_drives catches, the loop is left.
P_Raise ==
    /\ pc = "in_call"
    /\ cvpc = "raised"
    /\ pc' = "raised"
    /\ UNCHANGED <<tree, drive_paths, idx, result, visited, calls, image_dirs,
                   output_dir_exists, cvpc, cvLocals, exception, files, console>>

\* Line 75: the loop is over.
P_End ==
    /\ pc = "loop"
    /\ idx > Len(drive_paths)
    /\ console' = Append(console, Msg("AllProcessed", <<>>))
    /\ result' = <<None>>
    /\ pc' = "done"
    /\ UNCHANGED <<tree, drive_paths, idx, visited, calls, image_dirs,
                   output_dir_exists, cvpc, cvLocals, exception, files>>

----------------------------------------------------------------------------
(* The inputs.                                                             *)

F2 == <<"f", "2", ".", "p", "n", "g">>

F10 == <<"f", "1", "0", ".", "p", "n", "g">>

F02 == <<"f", "0", "2", ".", "p", "n", "g">>

A == <<"a", ".", "p", "n", "g">>

G7x1 == <<"g", "7", "x", "1", ".", "p", "n", "g">>

F3jpg == <<"f", "3", ".", "j", "p", "g">>

\* A hidden file: its name ends with .png, and '*.png' does not match it.
HiddenPng == <<".", "p", "n", "g">>

NamePool == {F2, F10, F02, A, G7x1, F3jpg, HiddenPng}

\* Every directory listing of at most n names of the pool.
Listings(pool, n) ==
    UNION {Orders(S) : S \in {T \in SUBSET pool : Cardinality(T) <= n}}

\* What an image_02/data folder of the batch may hold.
DriveFolders == {{}, {F3jpg, HiddenPng}, {F2}, {F10, F2}, {F2, A}}

\* The listings of those folders: the directory may list the names in any order.
DriveListings == UNION {Orders(S) : S \in DriveFolders}

Shapes == {<<1, 1>>, <<1, 2>>, <<2, 1>>}

DecodeOutcomes == {None} \cup Shapes

\* The folder of the single conversion: its name holds a digit.
VideoFolder == <<"d", "9">>

OutVideo == <<"o", ".", "m", "p", "4">>

Root == <<"t">>

OutputDir == <<"o">>

TreePool ==
    { <<<<"a">>, <<"1">> \o SyncSuffix>>,
      <<<<"a">>, <<"0">> \o SyncSuffix \o <<"_", "x">> \o SyncSuffix>>,
      <<<<"b">>, <<"0">> \o SyncSuffix>>,
      <<<<"a">>, <<"x">>>> }

DrivePath(entry) == Join(Join(Root, entry[1]), entry[2])

----------------------------------------------------------------------------
(* The two programs.                                                       *)

\* python frames_to_video.py -i VideoFolder -o OutVideo: one call of create_video.
VideoInit ==
    /\ pc = "standalone"
    /\ tree = {}
    /\ drive_paths = <<>>
    /\ idx = 0
    /\ result = <<>>
    /\ visited = <<>>
    /\ calls = <<>>
    /\ image_dirs = {}
    /\ output_dir_exists = TRUE
    /\ cvpc = "start"
    /\ image_folder = VideoFolder
    /\ output_video_path = OutVideo
    /\ listing = <<>>
    /\ globbed = <<>>
    /\ image_files = <<>>
    /\ size = None
    /\ video_writer = "none"
    /\ opened = <<>>
    /\ written = <<>>
    /\ fi = 0
    /\ decoded = <<>>
    /\ exception = ""
    /\ files \in {{}, {OutVideo}}
    /\ files0 = files
    /\ console = <<>>

VideoNext ==
    \/ CV_Discover(Listings(NamePool, MaxFrames))
    \/ CV_ReadFirst(DecodeOutcomes)
    \/ CV_OpenWriter
    \/ CV_Frame(DecodeOutcomes)
    \/ CV_Finalize

SpecVideo == VideoInit /\ [][VideoNext]_vars

\* python process_kitti_drives.py: process_all_drives(Root, OutputDir, fps).
Init ==
    /\ pc = "start"
    /\ tree \in {T \in SUBSET TreePool : Cardinality(T) <= MaxDrives}
    /\ drive_paths = <<>>
    /\ idx = 0
    /\ result = <<>>
    /\ visited = <<>>
    /\ calls = <<>>
    /\ image_dirs \in SUBSET {DrivePath(e) : e \in {x \in tree : SyncMatch(x)}}
    /\ output_dir_exists \in BOOLEAN
    /\ cvpc = "idle"
    /\ image_folder = <<>>
    /\ output_video_path = <<>>
    /\ listing = <<>>
    /\ globbed = <<>>
    /\ image_files = <<>>
    /\ size = None
    /\ video_writer = "none"
    /\ opened = <<>>
    /\ written = <<>>
    /\ fi = 0
    /\ decoded = <<>>
    /\ exception = ""
    /\ files \in {{}, {OutputVideoPath(OutputDir, DriveName(DrivePath(e))) :
                            e \in {x \in tree : SyncMatch(x)}}}
    /\ files0 = {}
    /\ console = <<>>

Next ==
    \/ P_Discover(Root)
    \/ P_Drive(OutputDir)
    \/ CV_Discover(DriveListings)
    \/ CV_ReadFirst(DecodeOutcomes)
    \/ CV_OpenWriter
    \/ CV_Frame(DecodeOutcomes)
    \/ CV_Finalize
    \/ P_Return
    \/ P_Raise
    \/ P_End

Spec == Init /\ [][Next]_vars

----------------------------------------------------------------------------
(* Properties.                                                             *)

Range(s) == {s[i] : i \in DOMAIN s}

Count(s, x) == Cardinality({i \in DOMAIN s : s[i] = x})

IsPermutation(s, t) ==
    /\ Len(s) = Len(t)
    /\ \A x \in Range(s) \cup Range(t) : Count(s, x) = Count(t, x)

Sorting == cvpc \in {"start", "idle"}

\* What the i-th cv2.imread call returned, and the path it read.
Shape(i) == decoded[i][2]

ReadPath(i) == decoded[i][1]

\* Frame k is the first one of the loop whose decoded shape differs from the first
\* frame's, every frame before it having decoded to that shape.
MismatchAt(k) ==
    /\ Len(decoded) >= k + 1
    /\ Shape(1) # None
    /\ \A j \in 1..(k - 1) : Shape(j + 1) = Shape(1)
    /\ Shape(k + 1) # None
    /\ Shape(k + 1) # Shape(1)

\* C1: when frame k (1 < k <= n) is the first whose width or height differs from the
\* first frame's, create_video stops there: no image is read after it, frames
\* 1..k-1 are all that was ever written, the encoder is released, no file is left
\* at output_video_path, and the last thing printed is the resolution mismatch
\* naming frame k with the expected and the actual size.
C1_MismatchAborts ==
    \A k \in 2..Len(image_files) :
        MismatchAt(k) =>
            /\ cvpc = "returned"
            /\ exception = ""
            /\ Len(decoded) = k + 1
            /\ written = SubSeq(image_files, 1, k - 1)
            /\ video_writer = "released"
            /\ output_video_path \notin files
            /\ Last(console) =
                   Msg("ResolutionMismatch",
                       <<Basename(image_files[k]),
                         <<Shape(1)[2], Shape(1)[1]>>,
                         <<Shape(k + 1)[2], Shape(k + 1)[1]>> >>)

C1_Witness ==
    /\ Len(image_files) = 3
    /\ MismatchAt(3)
    /\ files0 = {OutVideo}
    /\ Shape(1) = <<1, 1>>
    /\ Shape(4) = <<1, 2>>
    /\ cvpc = "returned"

\* C2: when an image read after the encoder was opened fails to decode, create_video
\* returns with UnreadableFrame reported for that path, no exception leaves it, the
\* encoder is released and no file is left at output_video_path.
C2_UnreadableLaterFrameReported ==
    (Len(decoded) >= 2 /\ Shape(1) # None /\ Shape(Len(decoded)) = None) =>
        /\ cvpc = "returned"
        /\ exception = ""
        /\ Last(console) = Msg("UnreadableFrame", <<ReadPath(Len(decoded))>>)
        /\ video_writer = "released"
        /\ output_video_path \notin files

\* C5: when every discovered basename holds a digit, the frames are taken in an order
\* that is a permutation of the discovered files and non-decreasing in the integer
\* value of the first digit run; the frames written are always the first so many of
\* that order, and all of it once the video is complete.
C5_NumericOrder ==
    (~Sorting /\ globbed # <<>>
        /\ \A i \in DOMAIN globbed : HasDigit(Basename(globbed[i]))) =>
        /\ IsPermutation(image_files, globbed)
        /\ \A i \in 1..(Len(image_files) - 1) :
               SortKey(image_files[i]) <= SortKey(image_files[i + 1])
        /\ written = SubSeq(image_files, 1, Len(written))
        /\ (cvpc = "returned" /\ Last(console).kind = "Success" =>
               IsPermutation(written, globbed))

C5_Witness ==
    /\ globbed = <<Join(VideoFolder, F10), Join(VideoFolder, F02), Join(VideoFolder, F2)>>
    /\ written = <<Join(VideoFolder, F02), Join(VideoFolder, F2), Join(VideoFolder, F10)>>
    /\ cvpc = "returned"

\* C6: when some discovered basename holds no digit, the whole frame set is in plain
\* string order, whatever order discovery returned and whatever digits the other
\* names hold.
C6_LexicalFallback ==
    (~Sorting /\ \E i \in DOMAIN globbed : ~HasDigit(Basename(globbed[i]))) =>
        /\ IsPermutation(image_files, globbed)
        /\ \A i \in 1..(Len(image_files) - 1) :
               StrLess(image_files[i], image_files[i + 1])

C6_Witness ==
    /\ globbed = <<Join(VideoFolder, F2), Join(VideoFolder, A), Join(VideoFolder, F10)>>
    /\ image_files = <<Join(VideoFolder, A), Join(VideoFolder, F10), Join(VideoFolder, F2)>>
    /\ written = image_files

\* C7: when create_video has ended on a non-empty frame set whose every read decoded
\* to one and the same shape, it read every frame, built the encoder exactly once,
\* with the (width, height) of the first frame, wrote every discovered frame once in
\* sorted order, released the encoder and reported success, and the output file
\* exists.
C7_UniformFramesSucceed ==
    (cvpc \in {"returned", "raised"} /\ image_files # <<>>
        /\ \A i \in DOMAIN decoded : Shape(i) # None /\ Shape(i) = Shape(1)) =>
        /\ cvpc = "returned"
        /\ exception = ""
        /\ Len(decoded) = Len(image_files) + 1
        /\ ReadPath(1) = image_files[1]
        /\ \A i \in DOMAIN image_files : ReadPath(i + 1) = image_files[i]
        /\ opened = << <<output_video_path, <<Shape(1)[2], Shape(1)[1]>> >> >>
        /\ written = image_files
        /\ Len(written) = Len(globbed)
        /\ IsPermutation(written, globbed)
        /\ video_writer = "released"
        /\ Last(console) = Msg("Success", <<output_video_path>>)
        /\ output_video_path \in files

C7_Witness ==
    /\ cvpc = "returned"
    /\ Len(image_files) = 3
    /\ \A i \in 1..4 : Shape(i) = <<1, 2>>
    /\ Last(console).kind = "Success"

\* C8: when no name in the folder matches *.<image_ext>, create_video reports that no
\* frames were found and returns; it builds no encoder, reads no image, and the
\* files on disk are the ones that were there when it was entered.
C8_NoFramesFound ==
    (~Sorting /\ \A i \in DOMAIN listing : ~GlobMatch(listing[i], ImageExt)) =>
        /\ cvpc = "returned"
        /\ exception = ""
        /\ Last(console) = Msg("NoFramesFound", <<ImageExt, image_folder>>)
        /\ opened = <<>>
        /\ video_writer = "none"
        /\ decoded = <<>>
        /\ written = <<>>
        /\ files = files0

C8_Witness ==
    /\ listing = <<F3jpg, HiddenPng>>
    /\ cvpc = "returned"
    /\ files = {OutVideo}

Stopped == pc \in {"done", "raised"}

VisitedPaths == [i \in DOMAIN visited |-> visited[i].drive_path]

Discovered == {DrivePath(e) : e \in {x \in tree : SyncMatch(x)}}

\* C3: a batch over a non-empty set of drives stops only at its end-of-batch state,
\* having taken up every discovered drive exactly once, in string order of the
\* paths, whatever became of the drives before.
C3_EveryDriveVisited ==
    Stopped =>
        /\ pc = "done"
        /\ Range(VisitedPaths) = Discovered
        /\ Len(VisitedPaths) = Cardinality(Discovered)
        /\ \A i \in 1..(Len(VisitedPaths) - 1) :
               StrLess(VisitedPaths[i], VisitedPaths[i + 1])

CallsFor(drive_path) ==
    Cardinality({i \in DOMAIN calls :
                     calls[i].image_folder = RgbImageFolder(drive_path)})

\* C4: once the batch has stopped, every discovered drive without an image folder
\* was skipped (reported, and create_video never called for it), and create_video
\* was called exactly once for each discovered drive that has one, and for no
\* other folder.
C4_MissingFolderSkipped ==
    Stopped =>
        /\ \A d \in Discovered :
               IF d \in image_dirs
               THEN CallsFor(d) = 1
               ELSE /\ CallsFor(d) = 0
                    /\ Msg("Skip", <<DriveName(d), RgbImageFolder(d)>>) \in Range(console)
        /\ \A i \in DOMAIN calls :
               \E d \in Discovered \cap image_dirs :
                   calls[i].image_folder = RgbImageFolder(d)

\* C9: when the batch is over, process_all_drives has recorded one outcome (success,
\* skipped, or failed with its reason) for each discovered drive and yields a
\* summary whose success, skip and failure counts sum to the number of drives
\* discovered and which lists every failed drive with its reason.
C9_SummaryReturned ==
    pc = "done" =>
        /\ result # <<None>>
        /\ result[1].success + result[1].skipped + result[1].failed = Len(drive_paths)
        /\ Len(result[1].failures) = result[1].failed

\* C10: the drive_name of every drive taken up is its basename less the trailing
\* _sync and nothing else, and the output path handed to create_video is
\* <output_dir>/<that name>.mp4.
C10_OnlySuffixStripped ==
    /\ \A i \in DOMAIN visited :
           LET b == Basename(visited[i].drive_path)
           IN  visited[i].drive_name = SubSeq(b, 1, Len(b) - Len(SyncSuffix))
    /\ \A i \in DOMAIN calls :
           \E d \in Discovered :
               LET b == Basename(d)
               IN  /\ calls[i].image_folder = RgbImageFolder(d)
                   /\ calls[i].output_video_path =
                          Join(OutputDir, SubSeq(b, 1, Len(b) - Len(SyncSuffix))
                                          \o <<".", "m", "p", "4">>)

====
